---- MODULE Spec2Model ----
(***************************************************************************)
(* Model of the /mine-rules handler of src/app/main.py (mine_rules, lines  *)
(* 383-559): sheet -> dropna -> crosstab basket -> apriori ->              *)
(* association_rules -> single-antecedent filter -> coverage pass (at      *)
(* least 5 consequents per product) -> merge -> sort by lift -> truncate.  *)
(*                                                                         *)
(* Items and transaction ids are small integers; the integer order is the  *)
(* sorted order pandas.crosstab gives the columns and the index.  0 stands *)
(* for a missing cell (NaN).  Floating point values are modelled as exact  *)
(* reduced fractions <<n, d>>.                                             *)
(***************************************************************************)
EXTENDS Integers, Sequences, FiniteSets, TLC

\* ------------------------------------------------------------------ bounds
NumItems == 3
NumTxns == 2
MaxPairs == 3
MaxPermItems == 3

\* ------------------------------------------------------- program constants
MinCoverage == 5
DefaultMaxRules == 20
LargeDatasetRows == 10000

NaN == 0
Items == 1..NumItems
Txns == 1..NumTxns

\* ------------------------------------------------------------- arithmetic
RECURSIVE GCD(_, _)
GCD(a, b) == IF b = 0 THEN a ELSE GCD(b, a % b)

\* the float n / d, as a reduced fraction (d > 0, n >= 0)
Rat(n, d) == IF n = 0 THEN <<0, 1>> ELSE <<n \div GCD(n, d), d \div GCD(n, d)>>

RatGeq(x, y) == x[1] * y[2] >= y[1] * x[2]
RatGt(x, y) == x[1] * y[2] > y[1] * x[2]
RatDiv(x, y) == Rat(x[1] * y[2], x[2] * y[1])
RatMul(x, y) == Rat(x[1] * y[1], x[2] * y[2])

\* --------------------------------------------------------- sequence helpers
\* the members of a set of integers, ascending
SetToSortedSeq(S) ==
    [n \in 1..Cardinality(S) |->
        CHOOSE x \in S : Cardinality({y \in S : y <= x}) = n]

Range(s) == {s[k] : k \in 1..Len(s)}

\* the longest consequent list of rs
MaxConsequents(rs) ==
    IF rs = <<>> THEN 0
    ELSE CHOOSE m \in {Len(rs[k].consequents) : k \in 1..Len(rs)} :
             \A k \in 1..Len(rs) : Len(rs[k].consequents) <= m

\* sum(len(rule["consequents"]) for rule in rs)
SumLen(rs) ==
    Cardinality({<<k, j>> \in (1..Len(rs)) \X (1..MaxConsequents(rs)) :
                    j <= Len(rs[k].consequents)})

RECURSIVE Flatten(_)
Flatten(ss) == IF ss = <<>> THEN <<>> ELSE Head(ss) \o Flatten(Tail(ss))

\* Series.unique(): the distinct values in order of first appearance
Unique(s) ==
    LET first == {k \in 1..Len(s) : \A j \in 1..(k - 1) : s[j] # s[k]}
        idx == SetToSortedSeq(first)
    IN [n \in 1..Len(idx) |-> s[idx[n]]]

\* ------------------------------------------------------------ the DataFrame
\* a frame is a sequence of rows <<transaction, item>>
TxnCol(df) == [k \in 1..Len(df) |-> df[k][1]]
ItemCol(df) == [k \in 1..Len(df) |-> df[k][2]]

\* df[[transaction_column, item_column]].dropna()
Dropna(rows) == SelectSeq(rows, LAMBDA r : r[1] # NaN /\ r[2] # NaN)

\* pd.crosstab(df[transaction_column], df[item_column]): one row per distinct
\* transaction, one column per distinct item, the cell counting the df rows
CrossTab(df) ==
    [index |-> Range(TxnCol(df)),
     columns |-> Range(ItemCol(df)),
     cell |-> [t \in Range(TxnCol(df)) |->
                 [i \in Range(ItemCol(df)) |->
                     Cardinality({k \in 1..Len(df) : df[k] = <<t, i>>})]]]

\* (basket > 0).astype(int)
Binarize(tab) ==
    [tab EXCEPT !.cell = [t \in tab.index |->
                            [i \in tab.columns |-> IF tab.cell[t][i] > 0 THEN 1 ELSE 0]]]

\* groupby([txn, item]).size() -> pivot_table(fill_value=0) -> (> 0).astype(int)
PivotEncode(df) == Binarize(CrossTab(df))

CrossTabEncode(df) == Binarize(CrossTab(df))

BasketEncode(df) ==
    IF Len(df) > LargeDatasetRows THEN PivotEncode(df) ELSE CrossTabEncode(df)

\* ---------------------------------------------------- mlxtend.apriori (434)
\* fpcommon.valid_input_check: every cell of the basket is 0 or 1
ValidInput(X) == \A t \in X.index : \A i \in X.columns : X.cell[t][i] \in {0, 1}

\* np.any in place of np.all: the row holds some item of the combination
RowHasAny(X, t, combo) == \E k \in 1..Len(combo) : X.cell[t][combo[k]] # 0

\* np.all(X[:, combin], axis=2): the row holds every item of the combination
RowHasAll(X, t, combo) == \A k \in 1..Len(combo) : X.cell[t][combo[k]] # 0

\* _support: the fraction of the rows that hold the whole combination
SupportOf(X, combo) ==
    Rat(Cardinality({t \in X.index : RowHasAll(X, t, combo)}), Cardinality(X.index))

\* the items that occur in any combination of the previous level
ItemTypes(old) == UNION {Range(old[k]) : k \in 1..Len(old)}

\* one old combination, extended by each item greater than its last one
ExtendCombination(c, types) ==
    LET valid == SetToSortedSeq({i \in types : i > c[Len(c)]})
    IN [k \in 1..Len(valid) |-> Append(c, valid[k])]

\* apriori.generate_new_combinations
GenerateNewCombinations(old) ==
    Flatten([k \in 1..Len(old) |-> ExtendCombination(old[k], ItemTypes(old))])

\* a min_support above 1 silently clamped to 1
IsFrequentClamped(X, combo, min_support) ==
    RatGeq(SupportOf(X, combo),
           IF RatGt(min_support, <<1, 1>>) THEN <<1, 1>> ELSE min_support)

\* the inclusive threshold test: support >= min_support
IsFrequent(X, combo, min_support) == RatGeq(SupportOf(X, combo), min_support)

\* the while loop of apriori: level k + 1 from level k, until no candidate
\* is generated or none of them is frequent
RECURSIVE AprioriLoop(_, _, _)
AprioriLoop(X, min_support, level) ==
    LET combin == GenerateNewCombinations(level)
        kept == SelectSeq(combin, LAMBDA c : IsFrequent(X, c, min_support))
    IN IF combin = <<>> \/ kept = <<>> THEN <<>>
       ELSE kept \o AprioriLoop(X, min_support, kept)

\* apriori(basket_encoded, min_support, use_colnames=True): the frame of
\* (support, itemsets), level by level, each level in column order
Apriori(X, min_support) ==
    LET cols == SetToSortedSeq(X.columns)
        singles == [k \in 1..Len(cols) |-> <<cols[k]>>]
        level1 == SelectSeq(singles, LAMBDA c : IsFrequent(X, c, min_support))
        all == level1 \o AprioriLoop(X, min_support, level1)
    IN [k \in 1..Len(all) |->
          [support |-> SupportOf(X, all[k]), itemsets |-> Range(all[k])]]

\* --------------------------------------- mlxtend.association_rules (440)
\* the iteration order of a frozenset: a process-wide order of the items
\* (the hash order), restricted to the members of the set
Iter(S, ord) == SelectSeq(ord, LAMBDA x : x \in S)

RECURSIVE Orderings(_)
Orderings(S) ==
    IF S = {} THEN {<<>>}
    ELSE UNION {{<<x>> \o p : p \in Orderings(S \ {x})} : x \in S}

Reverse(s) == [k \in 1..Len(s) |-> s[Len(s) + 1 - k]]

\* the iteration orders the model draws from: every order of the columns
\* for up to MaxPermItems columns, ascending and descending beyond that
HashOrders(cols) ==
    IF Cardinality(cols) <= MaxPermItems THEN Orderings(cols)
    ELSE {SetToSortedSeq(cols), Reverse(SetToSortedSeq(cols))}

\* itertools.combinations(s, r), in its order
RECURSIVE Combinations(_, _)
Combinations(s, r) ==
    IF r = 0 THEN << <<>> >>
    ELSE IF Len(s) < r THEN <<>>
    ELSE LET withHead == Combinations(Tail(s), r - 1)
         IN [k \in 1..Len(withHead) |-> <<Head(s)>> \o withHead[k]]
            \o Combinations(Tail(s), r)

HasItemset(fi, S) == \E k \in 1..Len(fi) : fi[k].itemsets = S

\* frequent_items_dict[S]
SupportLookup(fi, S) == fi[CHOOSE k \in 1..Len(fi) : fi[k].itemsets = S].support

\* lift computed as confidence * sC
MakeRuleLiftTimes(fi, k, c, ord) ==
    LET sAC == k.support
        sA == SupportLookup(fi, Range(c))
        sC == SupportLookup(fi, k.itemsets \ Range(c))
        conf == RatDiv(sAC, sA)
    IN [antecedents |-> c,
        consequents |-> Iter(k.itemsets \ Range(c), ord),
        support |-> sAC,
        confidence |-> conf,
        lift |-> RatMul(conf, sC)]

\* the rule built from frequent itemset k with antecedent combination c:
\* confidence = sAC / sA, lift = confidence / sC
MakeRule(fi, k, c, ord) ==
    LET sAC == k.support
        sA == SupportLookup(fi, Range(c))
        sC == SupportLookup(fi, k.itemsets \ Range(c))
        conf == RatDiv(sAC, sA)
    IN [antecedents |-> c,
        consequents |-> Iter(k.itemsets \ Range(c), ord),
        support |-> sAC,
        confidence |-> conf,
        lift |-> RatDiv(conf, sC)]

\* for idx in range(len(k) - 1, 0, -1): for c in combinations(k, r=idx)
Antecedents(k, ord) ==
    LET it == Iter(k.itemsets, ord)
    IN Flatten([j \in 1..(Len(it) - 1) |-> Combinations(it, Len(it) - j)])

RulesOf(fi, k, ord, min_confidence) ==
    LET ants == Antecedents(k, ord)
        made == [j \in 1..Len(ants) |-> MakeRule(fi, k, ants[j], ord)]
    IN SelectSeq(made, LAMBDA r : RatGeq(r.confidence, min_confidence))

\* the lookup of an antecedent or consequent that is no frequent itemset
\* raises KeyError
RulesKeyError(fi) ==
    \E k \in 1..Len(fi) : \E A \in SUBSET fi[k].itemsets :
        A # {} /\ A # fi[k].itemsets /\ ~HasItemset(fi, A)

\* association_rules(frequent_itemsets, metric="confidence", min_threshold)
AssociationRules(fi, min_confidence, ord) ==
    Flatten([k \in 1..Len(fi) |-> RulesOf(fi, fi[k], ord, min_confidence)])

\* ------------------------------------------------ list.sort(key=lift, reverse=True)
\* a sort by (lift, confidence), both descending
LiftConfidenceRank(s, k) ==
    Cardinality({j \in 1..Len(s) :
                    \/ RatGt(s[j].lift, s[k].lift)
                    \/ s[j].lift = s[k].lift /\ RatGt(s[j].confidence, s[k].confidence)})
    + Cardinality({j \in 1..k :
                    s[j].lift = s[k].lift /\ s[j].confidence = s[k].confidence})

SortByLiftThenConfidence(s) ==
    [p \in 1..Len(s) |-> s[CHOOSE k \in 1..Len(s) : LiftConfidenceRank(s, k) = p]]

\* the place of s[k] in the sorted list: behind every rule of greater lift,
\* and behind the earlier rules of equal lift (the sort is stable)
LiftRank(s, k) ==
    Cardinality({j \in 1..Len(s) : RatGt(s[j].lift, s[k].lift)})
    + Cardinality({j \in 1..k : s[j].lift = s[k].lift})

SortByLift(s) ==
    [p \in 1..Len(s) |-> s[CHOOSE k \in 1..Len(s) : LiftRank(s, k) = p]]

\* ------------------------------------------------- product_to_rules (dict)
\* an insertion-ordered dict: its keys in insertion order, and their values
EmptyDict == [keys |-> <<>>, val |-> <<>>]

DictHas(d, k) == k \in Range(d.keys)

\* d.setdefault(k, []), then d[k].extend(rs)
DictExtend(d, k, rs) ==
    IF DictHas(d, k) THEN [d EXCEPT !.val[k] = @ \o rs]
    ELSE [keys |-> Append(d.keys, k),
          val |-> [x \in Range(d.keys) \cup {k} |-> IF x = k THEN rs ELSE d.val[x]]]

\* the first pass without the test of line 456
KeepAnyRule(rule) == Len(rule.antecedents) >= 1

\* first pass (447-468): the rules with a single-item antecedent, by product
KeepRule(rule) == Len(rule.antecedents) = 1

OrganizeRules(rules) ==
    LET kept == SelectSeq(rules, KeepRule)
        keys == Unique([k \in 1..Len(kept) |-> kept[k].antecedents[1]])
    IN [keys |-> keys,
        val |-> [p \in Range(keys) |->
                    SelectSeq(kept, LAMBDA rule : rule.antecedents[1] = p)]]

\* ----------------------------------------------- coverage pass (475-536)
\* sum(len(rule["consequents"]) for rule in product_to_rules[product])
CurrentConsequents(d, product) == SumLen(d.val[product])

NeedsMore(d, product) ==
    ~DictHas(d, product) \/ CurrentConsequents(d, product) < MinCoverage

\* set(df[df[item_column] == product][transaction_column])
TransactionsWith(df, product) ==
    {df[k][1] : k \in {j \in 1..Len(df) : df[j][2] = product}}

\* the rows of another item, whatever their transaction
CoOccurringAnyTxn(df, product) ==
    SelectSeq(df, LAMBDA r : r[2] # product)

\* the df rows of those transactions that hold another item
CoOccurring(df, product) ==
    SelectSeq(df, LAMBDA r : r[1] \in TransactionsWith(df, product) /\ r[2] # product)

\* the number of rows of s equal to x
CountOf(s, x) == Cardinality({k \in 1..Len(s) : s[k] = x})

\* the place of entry k of s, sorted by count descending, stable
CountRank(s, k) ==
    Cardinality({j \in 1..Len(s) : s[j][2] > s[k][2]})
    + Cardinality({j \in 1..k : s[j][2] = s[k][2]})

SortByCount(s) ==
    [p \in 1..Len(s) |-> s[CHOOSE k \in 1..Len(s) : CountRank(s, k) = p]]

\* Series.value_counts(): <<value, number of rows>>, most frequent first,
\* equal counts in order of first appearance
ValueCounts(s) ==
    LET u == Unique(s)
    IN SortByCount([k \in 1..Len(u) |-> <<u[k], CountOf(s, u[k])>>])

\* df[transaction_column].nunique()
TotalTxns(df) == Cardinality(Range(TxnCol(df)))

\* the skip test looking at the antecedents instead of the consequents
AlreadyInAntecedents(d, product, co_item) ==
    DictHas(d, product)
    /\ \E k \in 1..Len(d.val[product]) : co_item \in Range(d.val[product][k].antecedents)

\* any(co_item in rule["consequents"] for rule in product_to_rules[product])
AlreadyInRules(d, product, co_item) ==
    DictHas(d, product)
    /\ \E k \in 1..Len(d.val[product]) : co_item \in Range(d.val[product][k].consequents)

\* lines 507-522: the synthesized rule product -> co_item
NewRule(df, product, co_item, count) ==
    LET total_txns == TotalTxns(df)
        product_txns == Cardinality(TransactionsWith(df, product))
        co_item_txns == Cardinality(TransactionsWith(df, co_item))
        support == Rat(count, total_txns)
        expected == RatMul(Rat(product_txns, total_txns), Rat(co_item_txns, total_txns))
    IN [antecedents |-> <<product>>,
        consequents |-> <<co_item>>,
        support |-> support,
        confidence |-> Rat(count, product_txns),
        lift |-> IF expected[1] > 0 THEN RatDiv(support, expected) ELSE <<1, 1>>]

\* lines 499-525: a rule per co-occurring item not yet in the product's
\* rules, sorted by lift
NewRules(df, d, product) ==
    LET counts == ValueCounts(ItemCol(CoOccurring(df, product)))
        cand == SelectSeq(counts, LAMBDA e : ~AlreadyInRules(d, product, e[1]))
    IN SortByLift([k \in 1..Len(cand) |-> NewRule(df, product, cand[k][1], cand[k][2])])

\* max(0, 5 - current_consequents)
Needed(d, product) ==
    IF MinCoverage - CurrentConsequents(d, product) > 0
    THEN MinCoverage - CurrentConsequents(d, product) ELSE 0

Take(s, n) == SubSeq(s, 1, IF n < Len(s) THEN n ELSE Len(s))

\* one iteration of the loop over all_products (475-536)
Augment(df, d, product) ==
    IF ~NeedsMore(d, product) THEN d
    ELSE IF TransactionsWith(df, product) = {} THEN d
    ELSE IF CoOccurring(df, product) = <<>> THEN d
    ELSE LET new_rules == NewRules(df, d, product)
             d1 == DictExtend(d, product, <<>>)
         IN DictExtend(d1, product, Take(new_rules, Needed(d1, product)))

\* lines 539-540: the values of the dict, concatenated in key order
CombineRules(d) == Flatten([k \in 1..Len(d.keys) |-> d.val[d.keys[k]]])

\* the cut without the max_rules > 0 test
TruncateAlways(rules_list, max_rules) ==
    IF Len(rules_list) > max_rules
    THEN SubSeq(rules_list, 1, IF max_rules > 0 THEN max_rules ELSE 0) ELSE rules_list

\* lines 548-549
Truncate(rules_list, max_rules) ==
    IF max_rules > 0 /\ Len(rules_list) > max_rules
    THEN SubSeq(rules_list, 1, max_rules) ELSE rules_list

\* ------------------------------------------------------------------ inputs
\* the sheet read from EXCEL_FILE: its two columns, and its rows
TxnColumnName == "Bill No"
ItemColumnName == "Item Name"
SheetColumns == {TxnColumnName, ItemColumnName}

\* every transaction id is preceded by the smaller ones: ids matter only up
\* to equality, so one labelling of each sheet is enough
TxnsInOrder(rows) ==
    \A k \in 1..Len(rows) : \A t \in 1..(rows[k][1] - 1) :
        \E j \in 1..(k - 1) : rows[j][1] = t

\* every sheet of up to MaxPairs rows over NumTxns transactions and NumItems items
SmallSheets ==
    {rows \in UNION {[1..n -> Txns \X Items] : n \in 0..MaxPairs} : TxnsInOrder(rows)}

\* T1:{A,B}, T2:{A,B,C}, T3:{A}, T4:{B,C}
SheetFourBaskets ==
    << <<1, 1>>, <<1, 2>>, <<2, 1>>, <<2, 2>>, <<2, 3>>, <<3, 1>>, <<4, 2>>, <<4, 3>> >>

\* T1:{A,B} with the row (T1,B) three times, T2:{A}
SheetRepeatedPair == << <<1, 1>>, <<1, 2>>, <<1, 2>>, <<1, 2>>, <<2, 1>> >>

\* the same sheet without the repeated rows
SheetNoRepeat == << <<1, 1>>, <<1, 2>>, <<2, 1>> >>

\* rows with a missing transaction or item cell
SheetMissingCells == << <<1, 1>>, <<NaN, 2>>, <<1, NaN>>, <<1, 2>>, <<2, 1>> >>

\* item 1 bought with each of the items 2..7, once each
SheetStar ==
    << <<1, 1>>, <<1, 2>>, <<2, 1>>, <<2, 3>>, <<3, 1>>, <<3, 4>>,
       <<4, 1>>, <<4, 5>>, <<5, 1>>, <<5, 6>>, <<6, 1>>, <<6, 7>> >>

\* T1 = T2 = {1,2,3}, T3 = {1,4}, T4 = {1,5}
SheetPartlyCovered ==
    << <<1, 1>>, <<1, 2>>, <<1, 3>>, <<2, 1>>, <<2, 2>>, <<2, 3>>,
       <<3, 1>>, <<3, 4>>, <<4, 1>>, <<4, 5>> >>

\* one transaction of four items
SheetOneBasket == << <<1, 1>>, <<1, 2>>, <<1, 3>>, <<1, 4>> >>

\* T1 = T2 = T3 = {1,2,3}, T4 = {1,4}, T5 = {1,5}, T6 = {5}
SheetTwoCandidates ==
    << <<1, 1>>, <<1, 2>>, <<1, 3>>, <<2, 1>>, <<2, 2>>, <<2, 3>>,
       <<3, 1>>, <<3, 2>>, <<3, 3>>, <<4, 1>>, <<4, 4>>, <<5, 1>>, <<5, 5>>,
       <<6, 5>> >>

\* the same sheet with the row (T5,5) three times
SheetRepeatedCandidate ==
    << <<1, 1>>, <<1, 2>>, <<1, 3>>, <<2, 1>>, <<2, 2>>, <<2, 3>>,
       <<3, 1>>, <<3, 2>>, <<3, 3>>, <<4, 1>>, <<4, 4>>, <<5, 1>>, <<5, 5>>,
       <<5, 5>>, <<5, 5>>, <<6, 5>> >>

Request(ms, mc, mr, ic, tc) ==
    [min_support |-> ms, min_confidence |-> mc, max_rules |-> mr,
     item_column |-> ic, transaction_column |-> tc]

MinSupports == {<<0, 1>>, <<1, 2>>, <<1, 1>>, <<3, 2>>}
MinConfidences == {<<1, 2>>, <<1, 1>>}
MaxRulesValues == {0, 2}

SmallRequests ==
    {Request(ms, mc, mr, ItemColumnName, TxnColumnName) :
        ms \in MinSupports, mc \in MinConfidences, mr \in MaxRulesValues}

ScenarioSheets ==
    {SheetFourBaskets, SheetRepeatedPair, SheetNoRepeat, SheetMissingCells,
     SheetStar, SheetPartlyCovered, SheetOneBasket, SheetTwoCandidates,
     SheetRepeatedCandidate}

ScenarioRequests ==
    {Request(ms, <<1, 2>>, mr, ItemColumnName, TxnColumnName) :
        ms \in {<<1, 4>>, <<1, 2>>, <<1, 1>>}, mr \in {-1, 3, DefaultMaxRules}}

\* requests that name a column the sheet does not have
BadColumnRequests ==
    {Request(<<1, 2>>, <<1, 2>>, DefaultMaxRules, ic, tc) :
        ic \in {ItemColumnName, "Product"}, tc \in {TxnColumnName, "Invoice"}}
    \ {Request(<<1, 2>>, <<1, 2>>, DefaultMaxRules, ItemColumnName, TxnColumnName)}

Inputs ==
    (SmallSheets \X SmallRequests)
    \cup (ScenarioSheets \X ScenarioRequests)
    \cup ({SheetFourBaskets, <<>>} \X BadColumnRequests)

\* ------------------------------------------------------------------- state
VARIABLES
    sheet,              \* the rows of the sheet, <<transaction, item>>
    request,            \* the form parameters of the request
    pc,                 \* the handler's position
    df,                 \* the frame after dropna (416)
    basket_encoded,     \* the 0/1 basket matrix (428-429)
    frequent_itemsets,  \* apriori's result (434)
    rules,              \* association_rules' result (440), as lists
    product_to_rules,   \* the dict of 444
    all_products,       \* df[item_column].unique() (473)
    next_product,       \* position of the loop of 475 in all_products
    rules_list,         \* the merged list (538-540)
    sorted_rules,       \* rules_list after the sort of 547
    exc,                \* the exception raised inside the try block
    response,           \* what the caller receives
    hash_order,         \* the order in which this process iterates a frozenset
                        \* of items; <<>> when it is left open until the one
                        \* place where a single request uses it (440-449)
    process,            \* 1, and 2 after the server process was restarted
    run,                \* 1 for the first request, 2 for the request repeated
    first_response      \* what the caller received for the first request

vars == <<sheet, request, pc, df, basket_encoded, frequent_itemsets, rules,
          product_to_rules, all_products, next_product, rules_list,
          sorted_rules, exc, response, hash_order, process, run, first_response>>

NoException == [type |-> "None", status |-> 0, detail |-> <<>>]
NoResponse == [status |-> 0, body |-> <<>>, detail |-> <<>>]
EmptyBasket == [index |-> {}, columns |-> {}, cell |-> <<>>]

Init ==
    /\ \E inp \in Inputs : sheet = inp[1] /\ request = inp[2]
    /\ pc = "read"
    /\ df = <<>>
    /\ basket_encoded = EmptyBasket
    /\ frequent_itemsets = <<>>
    /\ rules = <<>>
    /\ product_to_rules = EmptyDict
    /\ all_products = <<>>
    /\ next_product = 1
    /\ rules_list = <<>>
    /\ sorted_rules = <<>>
    /\ exc = NoException
    /\ response = NoResponse
    /\ hash_order = <<>>
    /\ process = 1
    /\ run = 1
    /\ first_response = NoResponse

\* raise inside the try block: control goes to the except clause of 555
Raise(type, status, detail) ==
    /\ exc' = [type |-> type, status |-> status, detail |-> detail]
    /\ pc' = "except"

\* lines 396-416: read the sheet, check the two columns, keep them, dropna
ReadSheet ==
    /\ pc = "read"
    /\ IF request.item_column \notin SheetColumns
       THEN /\ Raise("HTTPException", 400,
                     <<"Item column not found", request.item_column>>)
            /\ UNCHANGED df
       ELSE IF request.transaction_column \notin SheetColumns
       THEN /\ Raise("HTTPException", 400,
                     <<"Transaction column not found", request.transaction_column>>)
            /\ UNCHANGED df
       ELSE /\ df' = Dropna(sheet)
            /\ pc' = "encode"
            /\ UNCHANGED exc
    /\ UNCHANGED <<sheet, request, hash_order, process, run,
                   first_response, basket_encoded, frequent_itemsets, rules,
                   product_to_rules, all_products, next_product, rules_list,
                   sorted_rules, response>>

\* lines 418-429: the basket matrix
Encode ==
    /\ pc = "encode"
    /\ basket_encoded' = BasketEncode(df)
    /\ pc' = "apriori"
    /\ UNCHANGED <<sheet, request, hash_order, process, run,
                   first_response, df, frequent_itemsets, rules, product_to_rules,
                   all_products, next_product, rules_list, sorted_rules, exc,
                   response>>

\* line 434: apriori raises ValueError for min_support <= 0 and for a basket
\* that is not 0/1
MineItemsets ==
    /\ pc = "apriori"
    /\ IF ~RatGt(request.min_support, <<0, 1>>)
       THEN /\ Raise("ValueError", 0, <<"min_support must be a positive number">>)
            /\ UNCHANGED frequent_itemsets
       ELSE IF ~ValidInput(basket_encoded)
       THEN /\ Raise("ValueError", 0, <<"allowed values are 0/1">>)
            /\ UNCHANGED frequent_itemsets
       ELSE /\ frequent_itemsets' = Apriori(basket_encoded, request.min_support)
            /\ pc' = "rules"
            /\ UNCHANGED exc
    /\ UNCHANGED <<sheet, request, hash_order, process, run,
                   first_response, df, basket_encoded, rules, product_to_rules,
                   all_products, next_product, rules_list, sorted_rules, response>>

\* lines 438-439, 553: no frequent itemset, the empty list is returned
ReturnEmpty ==
    /\ pc = "rules"
    /\ Len(frequent_itemsets) = 0
    /\ response' = [status |-> 200, body |-> <<>>, detail |-> <<>>]
    /\ pc' = "done"
    /\ UNCHANGED <<sheet, request, hash_order, process, run,
                   first_response, df, basket_encoded, frequent_itemsets, rules,
                   product_to_rules, all_products, next_product, rules_list,
                   sorted_rules, exc>>

\* the orders in which the process may iterate a frozenset of the items: the
\* hashes of strings are drawn when the process starts and stay the same for
\* every request it serves
ProcessOrders(order, columns) ==
    IF order = <<>> THEN HashOrders(columns) ELSE {order}

\* line 440, and the list(...) of 448-449
GenerateRules ==
    /\ pc = "rules"
    /\ Len(frequent_itemsets) > 0
    /\ IF RulesKeyError(frequent_itemsets)
       THEN /\ Raise("KeyError", 0, <<"frequent itemset missing">>)
            /\ UNCHANGED rules
       ELSE /\ \E ord \in ProcessOrders(hash_order, basket_encoded.columns) :
                 rules' = AssociationRules(frequent_itemsets,
                                           request.min_confidence, ord)
            /\ pc' = "organize"
            /\ UNCHANGED exc
    /\ UNCHANGED <<sheet, request, hash_order, process, run,
                   first_response, df, basket_encoded, frequent_itemsets,
                   product_to_rules, all_products, next_product, rules_list,
                   sorted_rules, response>>

\* lines 444-473: the first pass, and the products of the second
FirstPass ==
    /\ pc = "organize"
    /\ product_to_rules' = OrganizeRules(rules)
    /\ all_products' = Unique(ItemCol(df))
    /\ next_product' = 1
    /\ pc' = "coverage"
    /\ UNCHANGED <<sheet, request, hash_order, process, run,
                   first_response, df, basket_encoded, frequent_itemsets, rules,
                   rules_list, sorted_rules, exc, response>>

\* lines 475-536: one product of the second pass
CoverageStep ==
    /\ pc = "coverage"
    /\ next_product <= Len(all_products)
    /\ product_to_rules' = Augment(df, product_to_rules, all_products[next_product])
    /\ next_product' = next_product + 1
    /\ UNCHANGED <<sheet, request, hash_order, process, run,
                   first_response, pc, df, basket_encoded, frequent_itemsets, rules,
                   all_products, rules_list, sorted_rules, exc, response>>

\* lines 538-540
Combine ==
    /\ pc = "coverage"
    /\ next_product > Len(all_products)
    /\ rules_list' = CombineRules(product_to_rules)
    /\ pc' = "sort"
    /\ UNCHANGED <<sheet, request, hash_order, process, run,
                   first_response, df, basket_encoded, frequent_itemsets, rules,
                   product_to_rules, all_products, next_product, sorted_rules, exc,
                   response>>

\* line 547
SortRules ==
    /\ pc = "sort"
    /\ sorted_rules' = SortByLift(rules_list)
    /\ pc' = "return"
    /\ UNCHANGED <<sheet, request, hash_order, process, run,
                   first_response, df, basket_encoded, frequent_itemsets, rules,
                   product_to_rules, all_products, next_product, rules_list, exc,
                   response>>

\* lines 548-553
Return ==
    /\ pc = "return"
    /\ response' = [status |-> 200,
                    body |-> Truncate(sorted_rules, request.max_rules),
                    detail |-> <<>>]
    /\ pc' = "done"
    /\ UNCHANGED <<sheet, request, hash_order, process, run,
                   first_response, df, basket_encoded, frequent_itemsets, rules,
                   product_to_rules, all_products, next_product, rules_list,
                   sorted_rules, exc>>

\* lines 555-559: every exception of the try block, HTTPException included,
\* becomes a status-500 HTTPException
ExceptHandler ==
    /\ pc = "except"
    /\ response' = [status |-> 500, body |-> <<>>,
                    detail |-> <<"Error processing rules">> \o exc.detail]
    /\ pc' = "done"
    /\ UNCHANGED <<sheet, request, hash_order, process, run,
                   first_response, df, basket_encoded, frequent_itemsets, rules,
                   product_to_rules, all_products, next_product, rules_list,
                   sorted_rules, exc>>

Next ==
    \/ ReadSheet
    \/ Encode
    \/ MineItemsets
    \/ ReturnEmpty
    \/ GenerateRules
    \/ FirstPass
    \/ CoverageStep
    \/ Combine
    \/ SortRules
    \/ Return
    \/ ExceptHandler

Spec == Init /\ [][Next]_vars

\* ------------------------------------------- the same request, twice
\* the requests that are sent twice
RepeatRequests ==
    {Request(ms, <<1, 2>>, mr, ItemColumnName, TxnColumnName) :
        ms \in {<<1, 2>>, <<1, 1>>}, mr \in {1, DefaultMaxRules}}

RepeatInputs ==
    (SmallSheets \X RepeatRequests) \cup ({<<>>} \X BadColumnRequests)

InitRepeat ==
    /\ \E inp \in RepeatInputs : sheet = inp[1] /\ request = inp[2]
    /\ pc = "read"
    /\ df = <<>>
    /\ basket_encoded = EmptyBasket
    /\ frequent_itemsets = <<>>
    /\ rules = <<>>
    /\ product_to_rules = EmptyDict
    /\ all_products = <<>>
    /\ next_product = 1
    /\ rules_list = <<>>
    /\ sorted_rules = <<>>
    /\ exc = NoException
    /\ response = NoResponse
    /\ hash_order \in HashOrders(Range(ItemCol(Dropna(sheet))))
    /\ process = 1
    /\ run = 1
    /\ first_response = NoResponse

\* lines 383-396: the same form is posted again, the file on disk being the
\* same. The handler keeps nothing at module level: every name it reads is
\* assigned first (396, 416, 428, 434, 438, 440, 444, 473), so what the names
\* held in the earlier call is left in place here
RepeatRequest ==
    /\ pc = "done"
    /\ run = 1
    /\ run' = 2
    /\ first_response' = response
    /\ response' = NoResponse
    /\ pc' = "read"
    /\ UNCHANGED <<sheet, request, hash_order, process, df, basket_encoded,
                   frequent_itemsets, rules, product_to_rules, all_products,
                   next_product, rules_list, sorted_rules, exc>>

\* the server is restarted between the two requests: the new process draws
\* its string hashes anew
RestartProcess ==
    /\ pc = "done"
    /\ run = 1
    /\ run' = 2
    /\ process' = 2
    /\ hash_order' \in HashOrders(Range(ItemCol(Dropna(sheet))))
    /\ first_response' = response
    /\ response' = NoResponse
    /\ pc' = "read"
    /\ UNCHANGED <<sheet, request, df, basket_encoded, frequent_itemsets, rules,
                   product_to_rules, all_products, next_product, rules_list,
                   sorted_rules, exc>>

NextRepeat ==
    \/ Next
    \/ RepeatRequest
    \/ RestartProcess

SpecRepeat == InitRepeat /\ [][NextRepeat]_vars

\* --------------------------------------------- the handler as one function
RECURSIVE CoverageLoop(_, _, _, _)
CoverageLoop(frame, d, products, k) ==
    IF k > Len(products) THEN d
    ELSE CoverageLoop(frame, Augment(frame, d, products[k]), products, k + 1)

\* the list mine_rules returns for a sheet with both columns, a request with
\* min_support > 0 and a hash order (lines 416-553)
MinedList(rows, req, ord) ==
    LET frame == Dropna(rows)
        fi == Apriori(BasketEncode(frame), req.min_support)
    IN IF Len(fi) = 0 THEN <<>>
       ELSE Truncate(
                SortByLift(CombineRules(
                    CoverageLoop(frame,
                                 OrganizeRules(AssociationRules(fi, req.min_confidence, ord)),
                                 Unique(ItemCol(frame)), 1))),
                req.max_rules)

\* ------------------------------------------- what the claims speak about
\* the distinct transactions of the frame that hold every item of S
TxnsHolding(frame, S) ==
    {t \in Range(TxnCol(frame)) :
        \A i \in S : \E k \in 1..Len(frame) : frame[k] = <<t, i>>}

\* support of S: the fraction of the distinct transactions holding all of S
TrueSupport(frame, S) ==
    Rat(Cardinality(TxnsHolding(frame, S)), Cardinality(Range(TxnCol(frame))))

\* the distinct other items that share a transaction with P
CoItems(frame, P) ==
    {i \in Range(ItemCol(frame)) : i # P /\ TxnsHolding(frame, {P, i}) # {}}

\* the items some rule of the list recommends for antecedent {P}
RecommendedFor(list, P) ==
    UNION {Range(list[k].consequents) :
              k \in {j \in 1..Len(list) : list[j].antecedents = <<P>>}}

MinOf(a, b) == IF a <= b THEN a ELSE b

ColumnsPresent ==
    request.item_column \in SheetColumns /\ request.transaction_column \in SheetColumns

\* min_support lies in (0, 1]
MinSupportInRange ==
    RatGt(request.min_support, <<0, 1>>) /\ RatGeq(<<1, 1>>, request.min_support)

Returned == pc = "done" /\ response.status = 200

\* C1 (as claimed): once a request with thresholds in range has returned,
\* every item P of the data has at least min(5, number of distinct items
\* sharing a transaction with P) recommended consequents in the rule set
\* as it stands before truncation
C1_CoverageGuarantee ==
    (Returned /\ MinSupportInRange) =>
        \A P \in Range(ItemCol(df)) :
            Cardinality(RecommendedFor(sorted_rules, P))
                >= MinOf(MinCoverage, Cardinality(CoItems(df, P)))

\* C2 (as claimed): a request whose min_support is outside (0, 1] ends in an
\* error response, never in a normal one, and no basket matrix was built
\* and no itemset counted for it
C2_ConfigErrorBeforeScan ==
    (ColumnsPresent /\ ~MinSupportInRange /\ pc = "done") =>
        /\ response.status # 200
        /\ basket_encoded = EmptyBasket
        /\ frequent_itemsets = <<>>

\* C3 (as claimed): the returned list is the list returned for the sheet
\* with the repeated (transaction, item) rows removed
C3_RepeatedPairsIgnored ==
    Returned =>
        \E ord \in HashOrders(basket_encoded.columns) :
            response.body = MinedList(Unique(sheet), request, ord)

\* C4 (as claimed): every returned rule has confidence =
\* support(antecedent \cup consequent) / support(antecedent), the supports
\* being fractions of the distinct transactions; so confidence <= 1
C4_ConfidenceIsSupportRatio ==
    Returned =>
        \A n \in 1..Len(response.body) :
            /\ response.body[n].confidence
                   = RatDiv(TrueSupport(df, Range(response.body[n].antecedents)
                                            \cup Range(response.body[n].consequents)),
                            TrueSupport(df, Range(response.body[n].antecedents)))
            /\ RatGeq(<<1, 1>>, response.body[n].confidence)

\* the place of rule r in a list that holds it
Pos(list, r) == CHOOSE k \in 1..Len(list) : list[k] = r

\* C5 (as claimed): the returned list is in lift order, descending; equal
\* lift is ordered by confidence, descending; equal lift and confidence
\* keep the order of the merged list
C5_TiesByConfidence ==
    Returned =>
        \A i \in 1..Len(response.body) : \A j \in (i + 1)..Len(response.body) :
            \/ RatGt(response.body[i].lift, response.body[j].lift)
            \/ /\ response.body[i].lift = response.body[j].lift
               /\ RatGt(response.body[i].confidence, response.body[j].confidence)
            \/ /\ response.body[i].lift = response.body[j].lift
               /\ response.body[i].confidence = response.body[j].confidence
               /\ Pos(rules_list, response.body[i]) < Pos(rules_list, response.body[j])

\* C5 (amended): the returned list holds rules of the merged list, in lift
\* order, descending; two rules of equal lift keep the order they had in
\* the merged list, whatever their confidence
C5_SortedByLiftStable ==
    Returned =>
        /\ Range(response.body) \subseteq Range(rules_list)
        /\ \A i \in 1..Len(response.body) : \A j \in (i + 1)..Len(response.body) :
            \/ RatGt(response.body[i].lift, response.body[j].lift)
            \/ /\ response.body[i].lift = response.body[j].lift
               /\ Pos(rules_list, response.body[i]) < Pos(rules_list, response.body[j])

\* a returned list where a rule stands before one of equal lift and
\* greater confidence
C5_Witness ==
    /\ Returned
    /\ \E i \in 1..Len(response.body) : \E j \in (i + 1)..Len(response.body) :
          /\ response.body[i].lift = response.body[j].lift
          /\ RatGt(response.body[j].confidence, response.body[i].confidence)

\* C6: with max_rules > 0 the returned list has at most max_rules entries, it
\* is the first min(max_rules, n) entries of the sorted list of n rules, and
\* no dropped rule has a greater lift than a returned one; with
\* max_rules <= 0 the whole sorted list is returned
C6_TruncationLaw ==
    Returned =>
        /\ request.max_rules > 0 =>
              /\ Len(response.body) <= request.max_rules
              /\ response.body =
                     SubSeq(sorted_rules, 1, MinOf(request.max_rules, Len(sorted_rules)))
              /\ \A i \in 1..Len(response.body) :
                   \A j \in (Len(response.body) + 1)..Len(sorted_rules) :
                       RatGeq(sorted_rules[i].lift, sorted_rules[j].lift)
        /\ request.max_rules <= 0 => response.body = sorted_rules

\* a request that returned fewer rules than were sorted, one of the dropped
\* rules having a smaller lift than a returned one
C6_Witness ==
    /\ Returned
    /\ request.max_rules > 0
    /\ Len(sorted_rules) > request.max_rules
    /\ Len(response.body) = request.max_rules
    /\ RatGt(sorted_rules[1].lift, sorted_rules[Len(sorted_rules)].lift)

\* no non-empty set of items of the frame reaches min_support
NothingFrequent ==
    \A S \in SUBSET Range(ItemCol(df)) :
        S # {} => ~RatGeq(TrueSupport(df, S), request.min_support)

C8_SingleAntecedent ==
    Returned =>
        \A n \in 1..Len(response.body) :
            /\ Len(response.body[n].antecedents) = 1
            /\ response.body[n].antecedents[1] \notin Range(response.body[n].consequents)

\* a non-empty returned list of a request for which a rule with two or more
\* antecedent items was mined
C8_Witness ==
    /\ Returned
    /\ response.body # <<>>
    /\ \E n \in 1..Len(rules) : Len(rules[n].antecedents) >= 2
    /\ \E n \in 1..Len(response.body) : Len(response.body[n].consequents) >= 2

FourBasketsRequest ==
    /\ sheet = SheetFourBaskets
    /\ ColumnsPresent
    /\ request.min_support = <<1, 4>>
    /\ request.min_confidence = <<1, 2>>

\* C9: for T1:{A,B}, T2:{A,B,C}, T3:{A}, T4:{B,C}, min_support 1/4 and
\* min_confidence 1/2, the frequent itemsets include {A} 3/4, {B} 3/4,
\* {C} 1/2, {A,B} 1/2, {B,C} 1/2, and the returned rules, when max_rules
\* does not cut the list, include A -> B with support 1/2, confidence 2/3,
\* lift 8/9
C9_FourBaskets ==
    (FourBasketsRequest /\ pc = "done") =>
        /\ {[support |-> <<3, 4>>, itemsets |-> {1}],
            [support |-> <<3, 4>>, itemsets |-> {2}],
            [support |-> <<1, 2>>, itemsets |-> {3}],
            [support |-> <<1, 2>>, itemsets |-> {1, 2}],
            [support |-> <<1, 2>>, itemsets |-> {2, 3}]}
               \subseteq Range(frequent_itemsets)
        /\ (request.max_rules <= 0 \/ request.max_rules >= Len(sorted_rules)) =>
              [antecedents |-> <<1>>, consequents |-> <<2>>, support |-> <<1, 2>>,
               confidence |-> <<2, 3>>, lift |-> <<8, 9>>] \in Range(response.body)

C9_Witness ==
    /\ FourBasketsRequest
    /\ Returned
    /\ request.max_rules = DefaultMaxRules
    /\ Len(response.body) = 7

\* C10: every non-empty subset of a frequent itemset is a frequent itemset
\* too, with a support at least that of the superset
C10_AntiMonotone ==
    \A n \in 1..Len(frequent_itemsets) :
        \A S \in SUBSET frequent_itemsets[n].itemsets :
            S # {} =>
                /\ HasItemset(frequent_itemsets, S)
                /\ RatGeq(SupportLookup(frequent_itemsets, S),
                          frequent_itemsets[n].support)

\* a frequent itemset of three items, one of its subsets having a strictly
\* greater support, and an item of the data that is not frequent
C10_Witness ==
    /\ pc = "rules"
    /\ MinSupportInRange
    /\ \E n \in 1..Len(frequent_itemsets) :
          /\ Cardinality(frequent_itemsets[n].itemsets) = 3
          /\ \E S \in SUBSET frequent_itemsets[n].itemsets :
                /\ HasItemset(frequent_itemsets, S)
                /\ RatGt(SupportLookup(frequent_itemsets, S),
                         frequent_itemsets[n].support)
    /\ \E i \in basket_encoded.columns : ~HasItemset(frequent_itemsets, {i})

\* C11 (as claimed): the same request on the same sheet, sent a second time,
\* gets the response the first one got: the same rules in the same order
C11_Deterministic ==
    (run = 2 /\ pc = "done") => response = first_response

\* C11, within one server process: the second response is the first one,
\* whatever the first call left in the handler's names
C11_DeterministicInProcess ==
    (run = 2 /\ process = 1 /\ pc = "done") => response = first_response

\* C11, whatever the process: the two responses have the same status, and
\* hold the same number of rules
C11_SameStatusAndLength ==
    (run = 2 /\ pc = "done") =>
        /\ response.status = first_response.status
        /\ Len(response.body) = Len(first_response.body)

\* the mined rules whose antecedent is {P}, in the order they were mined
MinedFor(P) == SelectSeq(rules, LAMBDA r : r.antecedents = <<P>>)

\* the rules the coverage pass added for P: the entries of P's list after
\* the mined ones
SynthesizedFor(P) ==
    IF DictHas(product_to_rules, P)
    THEN SubSeq(product_to_rules.val[P], Len(MinedFor(P)) + 1,
                Len(product_to_rules.val[P]))
    ELSE <<>>

\* the first pass is over
Organized == pc \in {"coverage", "sort", "return", "done"}

\* no rule of the list syn has a consequent item of the set taken, and no
\* two rules of syn share a consequent item
NoneRepeated(syn, taken) ==
    \A k \in 1..Len(syn) :
        /\ Range(syn[k].consequents) \cap taken = {}
        /\ \A j \in 1..(k - 1) :
              Range(syn[j].consequents) \cap Range(syn[k].consequents) = {}

\* C12: for every item P the list of P starts with the mined rules of P; no
\* rule added after them has a consequent item that a mined rule of P has
\* among its consequents, and no two added rules share a consequent item;
\* the returned rules are rules of these lists
C12_NoDuplicateRecommendation ==
    Organized =>
        /\ \A P \in Range(ItemCol(df)) :
              /\ DictHas(product_to_rules, P) =>
                    SubSeq(product_to_rules.val[P], 1, Len(MinedFor(P))) = MinedFor(P)
              /\ NoneRepeated(SynthesizedFor(P), RecommendedFor(MinedFor(P), P))
        /\ Returned => Range(response.body) \subseteq Range(rules_list)

\* a returned request where an item has a mined rule with a consequent of
\* two items, shares a transaction with both of them, and was given a
\* synthesized rule for another item
C12_Witness ==
    /\ Returned
    /\ \E P \in Range(ItemCol(df)) :
          /\ \E k \in 1..Len(MinedFor(P)) :
                /\ Len(MinedFor(P)[k].consequents) = 2
                /\ Range(MinedFor(P)[k].consequents) \subseteq CoItems(df, P)
          /\ Len(SynthesizedFor(P)) >= 1
          /\ \E n \in 1..Len(response.body) : response.body[n] = SynthesizedFor(P)[1]

\* every rule of syn is P -> C for one item C of the set co, which is not P;
\* fewer than 5 items in co allow no more rules than items
NotFabricated(P, syn, co) ==
    /\ \A k \in 1..Len(syn) :
          /\ syn[k].antecedents = <<P>>
          /\ Len(syn[k].consequents) = 1
          /\ syn[k].consequents[1] # P
          /\ syn[k].consequents[1] \in co
    /\ Cardinality(co) < MinCoverage => Len(syn) <= Cardinality(co)

\* C14: every rule the coverage pass added for an item P has the antecedent
\* P and one consequent item, which is not P and shares a transaction of
\* the data with P; an item that shares transactions with k < 5 other items
\* has at most k added rules
C14_NoFabricatedRecommendation ==
    Organized =>
        \A P \in Range(ItemCol(df)) :
            NotFabricated(P, SynthesizedFor(P), CoItems(df, P))

\* a returned request where an item that shares transactions with two to
\* four items, and with no mined rule, was given a rule for each of them,
\* the data holding further items it shares no transaction with
C14_Witness ==
    /\ Returned
    /\ \E P \in Range(ItemCol(df)) :
          /\ Cardinality(CoItems(df, P)) \in 2..(MinCoverage - 1)
          /\ MinedFor(P) = <<>>
          /\ Len(SynthesizedFor(P)) = Cardinality(CoItems(df, P))
          /\ Range(ItemCol(df)) \ (CoItems(df, P) \cup {P}) # {}

\* lift of P -> C: support of {P, C} over the product of the supports of
\* {P} and {C}
TrueLift(frame, P, C) ==
    RatDiv(TrueSupport(frame, {P, C}),
           RatMul(TrueSupport(frame, {P}), TrueSupport(frame, {C})))

\* the remaining candidates of P: the items sharing a transaction with P
\* that no mined rule of P recommends
Remaining(P) == CoItems(df, P) \ RecommendedFor(MinedFor(P), P)

\* the consequent items of the rules added for P
Selected(P) == UNION {Range(SynthesizedFor(P)[k].consequents) :
                         k \in 1..Len(SynthesizedFor(P))}

\* what C13 says of the item P, c being SumLen(MinedFor(P))
SelectionLaw(P) ==
    IF SumLen(MinedFor(P)) >= MinCoverage
    THEN SynthesizedFor(P) = <<>>
    ELSE /\ Len(SynthesizedFor(P))
               = MinOf(MinCoverage - SumLen(MinedFor(P)), Cardinality(Remaining(P)))
         /\ Selected(P) \subseteq Remaining(P)
         /\ \A C \in Selected(P) : \A U \in Remaining(P) \ Selected(P) :
               ~RatGt(TrueLift(df, P, U), TrueLift(df, P, C))

\* the coverage pass has run over every product
CoverageDone ==
    \/ pc \in {"sort", "return"}
    \/ Returned /\ Len(frequent_itemsets) > 0

\* C13 (as claimed): once the coverage pass is over, an item whose mined
\* rules list 5 or more consequent items has no added rule; any other item,
\* with c consequent items listed, has exactly min(5 - c, number of
\* remaining candidates) added rules, and no remaining candidate left out
\* has a greater lift than one that was taken
C13_CoverageLaw ==
    CoverageDone => \A P \in Range(ItemCol(df)) : SelectionLaw(P)

\* C13, for a sheet in which no (transaction, item) row is repeated
C13_WithoutRepeatedRows ==
    (CoverageDone /\ Unique(df) = df) =>
        \A P \in Range(ItemCol(df)) : SelectionLaw(P)

\* C13, the number of added rules alone, repeated rows or not
C13_NumberAdded ==
    CoverageDone =>
        \A P \in Range(ItemCol(df)) :
            Len(SynthesizedFor(P)) =
                IF SumLen(MinedFor(P)) >= MinCoverage THEN 0
                ELSE MinOf(MinCoverage - SumLen(MinedFor(P)), Cardinality(Remaining(P)))

\* C15 (as claimed): a request that names an item column or a transaction
\* column the sheet does not have ends with status 400, the detail naming
\* the missing column, and not with the status-500 response of the except
\* clause
C15_MissingColumnIs400 ==
    (pc = "done" /\ ~ColumnsPresent) =>
        /\ response.status = 400
        /\ response.detail \in
               {<<"Item column not found", request.item_column>>,
                <<"Transaction column not found", request.transaction_column>>}

\* C15, what does reach the caller: status 500, the detail being that of the
\* except clause followed by the text of the 400 error
C15_MissingColumnIs500 ==
    (pc = "done" /\ ~ColumnsPresent) =>
        /\ exc.type = "HTTPException" /\ exc.status = 400
        /\ response.status = 500
        /\ response.detail = <<"Error processing rules">> \o exc.detail
        /\ request.item_column \notin SheetColumns =>
              exc.detail = <<"Item column not found", request.item_column>>

====
